---- MODULE Spec2Model ----
(***************************************************************************)
(* Model of utxo/blockdb.py: the compact-size / blob / vector readers, the *)
(* record decoders (OutPoint, TxIn, TxOut, JoinSplit, Transaction,         *)
(* BlockHeader, Block) and the block-file reader read_blockfile.           *)
(*                                                                         *)
(* Bytes are integers 0..255, a byte string is a sequence of bytes.        *)
(* An io.BytesIO (and the file object) is a cursor [buf, pos, log]: the    *)
(* backing bytes, the read offset, and the history of the sizes asked of   *)
(* read().  Integers produced by struct.unpack are kept as four 16-bit     *)
(* limbs, least significant first, so that 32- and 64-bit values keep      *)
(* their full width.  An exception is the field exc of a decoder's         *)
(* outcome: "none", "struct.error" (a short read handed to unpack) or      *)
(* "AssertionError" (a failed assert).                                     *)
(***************************************************************************)
EXTENDS Integers, Sequences, FiniteSets, TLC

VARIABLES pc, stream, out, f, expected_prefix, magic, ret, result, exc, magicPos

vars == <<pc, stream, out, f, expected_prefix, magic, ret, result, exc, magicPos>>

\* ------------------------------------------------------------------------
\* Bounds of the explored inputs
\* ------------------------------------------------------------------------
MaxCompactLen == 9
MaxBlobLen == 4
MaxExtra == 2
MaxCut == 97
MaxJoinSplits == 1
MaxRecords == 2
MaxTrail == 2
MaxMagicLen == 2

\* ------------------------------------------------------------------------
\* Byte strings, cursors, numbers
\* ------------------------------------------------------------------------
Min(a, b) == IF a < b THEN a ELSE b

Max(a, b) == IF a < b THEN b ELSE a

Cursor(buf) == [buf |-> buf, pos |-> 0, log |-> <<>>]

NoCursor == Cursor(<<>>)

\* The outcome of a call: the exception it raised ("none" when it returned),
\* the value it returned, and the cursor it leaves behind.
Raise(e, s) == [exc |-> e, val |-> <<>>, s |-> s]

Return(v, s) == [exc |-> "none", val |-> v, s |-> s]

\* Statement sequencing: an exception raised by a call ends the caller, else
\* the rest of the caller, K, goes on with the call's outcome.
Bind(r, K(_)) == IF r.exc # "none" THEN Raise(r.exc, r.s) ELSE K(r)

\* io.BytesIO.read(n) / file.read(n): up to n bytes, fewer at the end of the
\* data, never an error.
read(s, n) ==
  Return(SubSeq(s.buf, s.pos + 1, s.pos + Min(n, Len(s.buf) - s.pos)),
         [s EXCEPT !.pos = @ + Min(n, Len(s.buf) - @), !.log = Append(@, n)])

Big(n) == <<n % 65536, n \div 65536, 0, 0>>

ToInt(v) == v[1] + 65536 * v[2]

Less(a, b) == \E i \in 1..4 : a[i] < b[i] /\ \A j \in (i + 1)..4 : a[j] = b[j]

GE(a, b) == ~Less(a, b)

LE(a, b) == ~Less(b, a)

calcsize(fmt) ==
  CASE fmt = "<B" -> 1
    [] fmt = "<H" -> 2
    [] fmt = "<I" -> 4
    [] fmt = "<Q" -> 8

ByteOr0(data, i) == IF i <= Len(data) THEN data[i] ELSE 0

\* struct.unpack(fmt, data) on the bytes just read: struct.error unless
\* len(data) = calcsize(fmt), else the little-endian unsigned value.
unpack(fmt, r) ==
  IF Len(r.val) # calcsize(fmt)
  THEN Raise("struct.error", r.s)
  ELSE Return([i \in 1..4 |->
                 ByteOr0(r.val, 2 * i - 1) + 256 * ByteOr0(r.val, 2 * i)], r.s)

\* ------------------------------------------------------------------------
\* read_compact_size
\* ------------------------------------------------------------------------
MAX_COMPACT_SIZE == <<0, 512, 0, 0>>

\* Mutant: the canonical-form assertion of a multi-byte branch is dropped.
wide_compact_size_nofloor(s, fmt, floor) ==
  unpack(fmt, read(s, calcsize(fmt)))

\* The branches n = 253, 254, 255: unpack the wider integer and assert that
\* it could not have been written in a shorter form.
wide_compact_size(s, fmt, floor) ==
  Bind(unpack(fmt, read(s, calcsize(fmt))), LAMBDA u :
    IF ~GE(u.val, floor) THEN Raise("AssertionError", u.s) ELSE u)

\* Mutant: the ceiling is exclusive (ret < 0x02000000).
read_compact_size_strict(s) ==
  Bind(unpack("<B", read(s, 1)), LAMBDA n :
    Bind(IF ToInt(n.val) < 253 THEN n
         ELSE IF ToInt(n.val) = 253 THEN wide_compact_size(n.s, "<H", Big(253))
         ELSE IF ToInt(n.val) = 254 THEN wide_compact_size(n.s, "<I", <<0, 1, 0, 0>>)
         ELSE wide_compact_size(n.s, "<Q", <<0, 0, 1, 0>>), LAMBDA ret_ :
      IF ~Less(ret_.val, MAX_COMPACT_SIZE) THEN Raise("AssertionError", ret_.s)
      ELSE Return(ToInt(ret_.val), ret_.s)))

read_compact_size(s) ==
  Bind(unpack("<B", read(s, 1)), LAMBDA n :
    Bind(IF ToInt(n.val) < 253 THEN n
         ELSE IF ToInt(n.val) = 253 THEN wide_compact_size(n.s, "<H", Big(253))
         ELSE IF ToInt(n.val) = 254 THEN wide_compact_size(n.s, "<I", <<0, 1, 0, 0>>)
         ELSE wide_compact_size(n.s, "<Q", <<0, 0, 1, 0>>), LAMBDA ret_ :
      IF ~LE(ret_.val, MAX_COMPACT_SIZE) THEN Raise("AssertionError", ret_.s)
      ELSE Return(ToInt(ret_.val), ret_.s)))

\* ------------------------------------------------------------------------
\* read_vector, read_bytes
\* ------------------------------------------------------------------------
\* read_vector: the element count, then the loop
\*   for i in range(0, n): ret.append(read_elem(stream))
\* which is given here as read_elems(stream, n, ret), one per element decoder.
read_vector(s, read_elems(_, _, _)) ==
  Bind(read_compact_size(s), LAMBDA n : read_elems(n.s, n.val, <<>>))

read_bytes(s) ==
  Bind(read_compact_size(s), LAMBDA n : read(n.s, n.val))

\* ------------------------------------------------------------------------
\* OutPoint, TxIn, TxOut
\* ------------------------------------------------------------------------
OutPoint_from_bytes(s) ==
  Bind(read(s, 32), LAMBDA hash :
  Bind(unpack("<I", read(hash.s, 4)), LAMBDA n :
    Return([hash |-> hash.val, n |-> n.val], n.s)))

TxIn_from_bytes(s) ==
  Bind(OutPoint_from_bytes(s), LAMBDA prevout :
  Bind(read_bytes(prevout.s), LAMBDA sig :
  Bind(unpack("<I", read(sig.s, 4)), LAMBDA sn :
    Return([prevout |-> prevout.val, script_sig |-> sig.val,
            sequence |-> sn.val], sn.s))))

RECURSIVE read_TxIn_elems(_, _, _)
read_TxIn_elems(s, n, acc) ==
  IF Len(acc) >= n THEN Return(acc, s)
  ELSE Bind(TxIn_from_bytes(s), LAMBDA e :
         read_TxIn_elems(e.s, n, Append(acc, e.val)))

TxOut_from_bytes(s) ==
  Bind(unpack("<Q", read(s, 8)), LAMBDA value :
  Bind(read_bytes(value.s), LAMBDA pubkey :
    Return([value |-> value.val, pubkey |-> pubkey.val], pubkey.s)))

RECURSIVE read_TxOut_elems(_, _, _)
read_TxOut_elems(s, n, acc) ==
  IF Len(acc) >= n THEN Return(acc, s)
  ELSE Bind(TxOut_from_bytes(s), LAMBDA e :
         read_TxOut_elems(e.s, n, Append(acc, e.val)))

\* ------------------------------------------------------------------------
\* JoinSplit
\* ------------------------------------------------------------------------
\* [stream.read(size) for i in range(0, count)]
RECURSIVE read_list(_, _, _, _)
read_list(s, size, count, acc) ==
  IF Len(acc) >= count THEN Return(acc, s)
  ELSE Bind(read(s, size), LAMBDA r :
         read_list(r.s, size, count, Append(acc, r.val)))

\* [stream.read(1), stream.read(size)]
read_pair(s, size) ==
  Bind(read(s, 1), LAMBDA flag :
  Bind(read(flag.s, size), LAMBDA body :
    Return(<<flag.val, body.val>>, body.s)))

\* the eight [flag, payload] pairs of the proof
read_proof(s) ==
  Bind(read_pair(s, 32), LAMBDA p1 :
  Bind(read_pair(p1.s, 32), LAMBDA p2 :
  Bind(read_pair(p2.s, 64), LAMBDA p3 :
  Bind(read_pair(p3.s, 32), LAMBDA p4 :
  Bind(read_pair(p4.s, 32), LAMBDA p5 :
  Bind(read_pair(p5.s, 32), LAMBDA p6 :
  Bind(read_pair(p6.s, 32), LAMBDA p7 :
  Bind(read_pair(p7.s, 32), LAMBDA p8 :
    Return(<<p1.val, p2.val, p3.val, p4.val, p5.val, p6.val, p7.val, p8.val>>,
           p8.s)))))))))

JoinSplit_from_bytes(s) ==
  Bind(unpack("<Q", read(s, 8)), LAMBDA vpub_old :
  Bind(unpack("<Q", read(vpub_old.s, 8)), LAMBDA vpub_new :
  Bind(read(vpub_new.s, 32), LAMBDA anchor :
  Bind(read_list(anchor.s, 32, 2, <<>>), LAMBDA nullifiers :
  Bind(read_list(nullifiers.s, 32, 2, <<>>), LAMBDA commitments :
  Bind(read(commitments.s, 32), LAMBDA ephemeral_key :
  Bind(read(ephemeral_key.s, 32), LAMBDA random_seed :
  Bind(read_list(random_seed.s, 32, 2, <<>>), LAMBDA macs :
  Bind(read_proof(macs.s), LAMBDA proof :
  Bind(read_list(proof.s, 585 + 16, 2, <<>>), LAMBDA ciphertexts :
    Return([vpub_old      |-> vpub_old.val,
            vpub_new      |-> vpub_new.val,
            anchor        |-> anchor.val,
            nullifiers    |-> nullifiers.val,
            commitments   |-> commitments.val,
            ephemeral_key |-> ephemeral_key.val,
            random_seed   |-> random_seed.val,
            macs          |-> macs.val,
            proof         |-> proof.val,
            ciphertexts   |-> ciphertexts.val],
           ciphertexts.s)))))))))))

RECURSIVE read_JoinSplit_elems(_, _, _)
read_JoinSplit_elems(s, n, acc) ==
  IF Len(acc) >= n THEN Return(acc, s)
  ELSE Bind(JoinSplit_from_bytes(s), LAMBDA e :
         read_JoinSplit_elems(e.s, n, Append(acc, e.val)))

\* ------------------------------------------------------------------------
\* Transaction
\* ------------------------------------------------------------------------
\* version, vin, vout, lock_time
Transaction_head(s) ==
  Bind(unpack("<I", read(s, 4)), LAMBDA version :
  Bind(read_vector(version.s, read_TxIn_elems), LAMBDA vin :
  Bind(read_vector(vin.s, read_TxOut_elems), LAMBDA vout :
  Bind(unpack("<I", read(vout.s, 4)), LAMBDA locktime :
    Return([version |-> version.val, vin |-> vin.val, vout |-> vout.val,
            lock_time |-> locktime.val], locktime.s)))))

\* joinsplit_pubkey and joinsplit_sig: read when the condition holds, else b""
Transaction_auth(s, present) ==
  IF present
  THEN Bind(read(s, 32), LAMBDA joinsplit_pubkey :
       Bind(read(joinsplit_pubkey.s, 64), LAMBDA joinsplit_sig :
         Return([joinsplit_pubkey |-> joinsplit_pubkey.val,
                 joinsplit_sig    |-> joinsplit_sig.val], joinsplit_sig.s)))
  ELSE Return([joinsplit_pubkey |-> <<>>, joinsplit_sig |-> <<>>], s)

\* Mutant: the authorization fields are read whenever version >= 2.
Transaction_from_bytes_byversion(s) ==
  Bind(Transaction_head(s), LAMBDA h :
  Bind(IF GE(h.val.version, Big(2))
       THEN read_vector(h.s, read_JoinSplit_elems)
       ELSE Return(<<>>, h.s), LAMBDA joinsplits :
  Bind(Transaction_auth(joinsplits.s, GE(h.val.version, Big(2))), LAMBDA auth :
    Return([version          |-> h.val.version,
            vin              |-> h.val.vin,
            vout             |-> h.val.vout,
            lock_time        |-> h.val.lock_time,
            vjoinsplit       |-> joinsplits.val,
            joinsplit_pubkey |-> auth.val.joinsplit_pubkey,
            joinsplit_sig    |-> auth.val.joinsplit_sig], auth.s))))

Transaction_from_bytes(s) ==
  Bind(Transaction_head(s), LAMBDA h :
  Bind(IF GE(h.val.version, Big(2))
       THEN read_vector(h.s, read_JoinSplit_elems)
       ELSE Return(<<>>, h.s), LAMBDA joinsplits :
  Bind(Transaction_auth(joinsplits.s, Len(joinsplits.val) > 0), LAMBDA auth :
    Return([version          |-> h.val.version,
            vin              |-> h.val.vin,
            vout             |-> h.val.vout,
            lock_time        |-> h.val.lock_time,
            vjoinsplit       |-> joinsplits.val,
            joinsplit_pubkey |-> auth.val.joinsplit_pubkey,
            joinsplit_sig    |-> auth.val.joinsplit_sig], auth.s))))

RECURSIVE read_Transaction_elems(_, _, _)
read_Transaction_elems(s, n, acc) ==
  IF Len(acc) >= n THEN Return(acc, s)
  ELSE Bind(Transaction_from_bytes(s), LAMBDA e :
         read_Transaction_elems(e.s, n, Append(acc, e.val)))

\* ------------------------------------------------------------------------
\* BlockHeader, Block
\* ------------------------------------------------------------------------
BlockHeader_from_bytes(s) ==
  Bind(read(s, 4), LAMBDA version :
  Bind(read(version.s, 32), LAMBDA hash_prev :
  Bind(read(hash_prev.s, 32), LAMBDA hash_root :
  Bind(read(hash_root.s, 32), LAMBDA hash_extra :
  Bind(read(hash_extra.s, 4), LAMBDA time :
  Bind(read(time.s, 4), LAMBDA bits :
  Bind(read(bits.s, 32), LAMBDA nonce :
  Bind(read_bytes(nonce.s), LAMBDA solution :
    Return([version    |-> version.val,
            hash_prev  |-> hash_prev.val,
            hash_root  |-> hash_root.val,
            hash_extra |-> hash_extra.val,
            time       |-> time.val,
            bits       |-> bits.val,
            nonce      |-> nonce.val,
            solution   |-> solution.val], solution.s)))))))))

Block_from_bytes(s) ==
  Bind(BlockHeader_from_bytes(s), LAMBDA header :
  Bind(read_vector(header.s, read_Transaction_elems), LAMBDA transactions :
    Return([header |-> header.val, transactions |-> transactions.val],
           transactions.s)))

\* ------------------------------------------------------------------------
\* Decoder calls: one call of the function under test on an input buffer
\* ------------------------------------------------------------------------
NoOutcome == [exc |-> "none", val |-> <<>>]

Idle ==
  /\ f = NoCursor
  /\ expected_prefix = <<>>
  /\ magic = <<>>
  /\ ret = <<>>
  /\ result = <<>>
  /\ exc = "none"
  /\ magicPos = <<>>

Finish(r) ==
  /\ pc' = IF r.exc = "none" THEN "returned" ELSE "raised"
  /\ stream' = r.s
  /\ out' = [exc |-> r.exc, val |-> r.val]
  /\ UNCHANGED <<f, expected_prefix, magic, ret, result, exc, magicPos>>

\* Inputs of read_compact_size: every tag byte class, payload bytes around the
\* canonical floors and the ceiling.
CompactByteAt(i) ==
  IF i = 1 THEN {0, 252, 253, 254, 255}
  ELSE IF i <= 5 THEN {0, 1, 2, 253, 255}
  ELSE IF i = 6 THEN {0, 1}
  ELSE {0}

RECURSIVE CompactInputsOfLen(_)
CompactInputsOfLen(l) ==
  IF l = 0 THEN {<<>>}
  ELSE {Append(b, x) : b \in CompactInputsOfLen(l - 1), x \in CompactByteAt(l)}

CompactInputs == UNION {CompactInputsOfLen(l) : l \in 0..MaxCompactLen}

InitCompactSize ==
  /\ pc = "call"
  /\ stream \in {Cursor(b) : b \in CompactInputs}
  /\ out = NoOutcome
  /\ Idle

CallReadCompactSize ==
  /\ pc = "call"
  /\ Finish(read_compact_size(stream))

NextCompactSize == CallReadCompactSize

SpecCompactSize == InitCompactSize /\ [][NextCompactSize]_vars

\* ------------------------------------------------------------------------
\* Claims about read_compact_size
\* ------------------------------------------------------------------------
\* The compact-size decoder as the format defines it, on plain bytes.
RefCompact(b) ==
  IF Len(b) = 0 THEN [kind |-> "eos", val |-> 0, used |-> 0]
  ELSE IF b[1] < 253 THEN [kind |-> "ok", val |-> b[1], used |-> 1]
  ELSE IF b[1] = 253 THEN
    IF Len(b) < 3 THEN [kind |-> "eos", val |-> 0, used |-> 0]
    ELSE IF b[2] + 256 * b[3] < 253 THEN [kind |-> "malformed", val |-> 0, used |-> 0]
    ELSE [kind |-> "ok", val |-> b[2] + 256 * b[3], used |-> 3]
  ELSE IF b[1] = 254 THEN
    IF Len(b) < 5 THEN [kind |-> "eos", val |-> 0, used |-> 0]
    ELSE LET lo == b[2] + 256 * b[3]
             hi == b[4] + 256 * b[5]
         IN  IF hi = 0 \/ hi > 512 \/ (hi = 512 /\ lo > 0)
             THEN [kind |-> "malformed", val |-> 0, used |-> 0]
             ELSE [kind |-> "ok", val |-> lo + 65536 * hi, used |-> 5]
  ELSE IF Len(b) < 9 THEN [kind |-> "eos", val |-> 0, used |-> 0]
  ELSE [kind |-> "malformed", val |-> 0, used |-> 0]

\* C5: on every input read_compact_size agrees with the reference decoder:
\* it returns exactly when the reference yields a value, then with that
\* value, with exactly the reference's byte count consumed and with the value
\* in [0, 0x02000000]; a non-canonical or too large encoding raises the
\* assertion error and a short input the unpack error.
C5_AgreesWithReference ==
  pc # "call" =>
    LET ref == RefCompact(stream.buf)
    IN  /\ (out.exc = "none") = (ref.kind = "ok")
        /\ (out.exc = "AssertionError") = (ref.kind = "malformed")
        /\ (out.exc = "struct.error") = (ref.kind = "eos")
        /\ out.exc = "none" =>
             /\ out.val = ref.val
             /\ stream.pos = ref.used
             /\ out.val >= 0
             /\ out.val <= 33554432

C5_Witness ==
  /\ pc = "returned"
  /\ stream.buf[1] = 254
  /\ out.val >= 65536
  /\ stream.pos = 5

\* Canonical compact-size encoding of a number given as 16-bit limbs.
Encode(v) ==
  IF v[2] = 0 /\ v[3] = 0 /\ v[4] = 0 /\ v[1] < 253 THEN <<v[1]>>
  ELSE IF v[2] = 0 /\ v[3] = 0 /\ v[4] = 0
       THEN <<253, v[1] % 256, v[1] \div 256>>
  ELSE IF v[3] = 0 /\ v[4] = 0
       THEN <<254, v[1] % 256, v[1] \div 256, v[2] % 256, v[2] \div 256>>
  ELSE <<255, v[1] % 256, v[1] \div 256, v[2] % 256, v[2] \div 256,
              v[3] % 256, v[3] \div 256, v[4] % 256, v[4] \div 256>>

RoundTrips(v) ==
  stream.buf = Encode(v) =>
    /\ pc = "returned"
    /\ Big(out.val) = v
    /\ stream.pos = Len(stream.buf)

Rejected(v) ==
  stream.buf = Encode(v) => pc = "raised" /\ out.exc = "AssertionError"

\* C6 as stated: each of 0, 252, 253, 65535, 65536, 4294967295, 4294967296
\* and 33554432 survives encode-then-decode, and 33554433 is rejected.
C6_Original ==
  pc # "call" =>
    /\ \A v \in {Big(0), Big(252), Big(253), Big(65535), Big(65536),
                 <<65535, 65535, 0, 0>>, <<0, 0, 1, 0>>, Big(33554432)} :
         RoundTrips(v)
    /\ Rejected(Big(33554433))

\* C6 amended: 0, 252, 253, 65535, 65536 and 33554432 survive
\* encode-then-decode; 4294967295, 4294967296 and 33554433 lie above the
\* ceiling and are rejected with the assertion error.
C6_RoundTripBelowCeiling ==
  pc # "call" =>
    /\ \A v \in {Big(0), Big(252), Big(253), Big(65535), Big(65536),
                 Big(33554432)} : RoundTrips(v)
    /\ \A v \in {<<65535, 65535, 0, 0>>, <<0, 0, 1, 0>>, Big(33554433)} :
         Rejected(v)

C6_Witness ==
  /\ pc = "returned"
  /\ stream.buf = Encode(Big(33554432))
  /\ out.val = 33554432

\* ------------------------------------------------------------------------
\* Input construction for the record decoders
\* ------------------------------------------------------------------------
Seeds == {0, 101}

\* l opaque bytes, distinct at neighbouring offsets
Pattern(seed, l) == [i \in 1..l |-> (seed + 7 * i) % 256]

Truncate(b, cut) == SubSeq(b, 1, Max(0, Len(b) - cut))

\* Number of bytes of a complete JoinSplit (the sum of JoinSplitReads below)
\* and the sizes its decoder asks of read(), in order.
JoinSplitReads ==
  <<8, 8, 32, 32, 32, 32, 32, 32, 32, 32, 32,
    1, 32, 1, 32, 1, 64, 1, 32, 1, 32, 1, 32, 1, 32, 1, 32,
    601, 601>>

RECURSIVE Sum(_)
Sum(q) == IF q = <<>> THEN 0 ELSE Head(q) + Sum(Tail(q))

RECURSIVE Repeat(_, _)
Repeat(q, k) == IF k = 0 THEN <<>> ELSE q \o Repeat(q, k - 1)

\* ------------------------------------------------------------------------
\* read_bytes
\* ------------------------------------------------------------------------
ReadBytesInputs ==
  {Encode(Big(n)) \o Pattern(seed, l) :
     n \in 0..MaxBlobLen, l \in 0..(MaxBlobLen + MaxExtra), seed \in Seeds}
  \cup {Encode(Big(253)) \o Pattern(seed, l) :
          l \in (253 - MaxBlobLen)..(253 + MaxExtra), seed \in Seeds}
  \cup {<<>>, <<253, 0, 0>>, <<253, 1>>}

InitReadBytes ==
  /\ pc = "call"
  /\ stream \in {Cursor(b) : b \in ReadBytesInputs}
  /\ out = NoOutcome
  /\ Idle

CallReadBytes ==
  /\ pc = "call"
  /\ Finish(read_bytes(stream))

NextReadBytes == CallReadBytes

SpecReadBytes == InitReadBytes /\ [][NextReadBytes]_vars

\* C7: read_bytes either returns a blob of exactly the decoded length n with
\* the cursor n past the prefix, or raises the end-of-stream error when fewer
\* than n bytes remain; it never returns a blob shorter than n.
C7_ExactLengthOrEndOfStream ==
  LET ref   == RefCompact(stream.buf)
      avail == Len(stream.buf) - ref.used
  IN  (pc # "call" /\ ref.kind = "ok") =>
        IF avail < ref.val
        THEN pc = "raised" /\ out.exc = "struct.error"
        ELSE /\ pc = "returned"
             /\ Len(out.val) = ref.val
             /\ stream.pos = ref.used + ref.val

\* ------------------------------------------------------------------------
\* JoinSplit.from_bytes
\* ------------------------------------------------------------------------
JoinSplitSize == Sum(JoinSplitReads)

JoinSplitInputs ==
  {Pattern(seed, l) :
     l \in (0..24) \cup ((JoinSplitSize - MaxCut)..(JoinSplitSize + MaxExtra)),
     seed \in Seeds}

InitJoinSplit ==
  /\ pc = "call"
  /\ stream \in {Cursor(b) : b \in JoinSplitInputs}
  /\ out = NoOutcome
  /\ Idle

CallJoinSplit ==
  /\ pc = "call"
  /\ Finish(JoinSplit_from_bytes(stream))

NextJoinSplit == CallJoinSplit

SpecJoinSplit == InitJoinSplit /\ [][NextJoinSplit]_vars

\* C10: on a buffer of exactly 1802 bytes JoinSplit.from_bytes succeeds and
\* consumes the whole buffer with the fixed sequence of read sizes, and on a
\* buffer of 1801 bytes it fails with the end-of-stream error.
C10_FixedSize1802 ==
  pc # "call" =>
    /\ Len(stream.buf) = 1802 =>
         /\ pc = "returned"
         /\ stream.pos = 1802
         /\ stream.log = JoinSplitReads
    /\ Len(stream.buf) = 1801 =>
         /\ pc = "raised"
         /\ out.exc = "struct.error"

\* ------------------------------------------------------------------------
\* Transaction.from_bytes
\* ------------------------------------------------------------------------
\* version fields: 1, 2, 0, 256 and 0x80000001
VersionBytes ==
  {<<1, 0, 0, 0>>, <<2, 0, 0, 0>>, <<0, 0, 0, 0>>, <<0, 1, 0, 0>>,
   <<1, 0, 0, 128>>}

TxInBytes(seed) == Pattern(seed, 36) \o <<2, 171, 205>> \o <<255, 255, 255, 255>>

TxOutBytes(seed) == Pattern(seed, 8) \o <<1, 172>>

VinBytes(seed) == {<<0>>, <<1>> \o TxInBytes(seed)}

VoutBytes(seed) == {<<0>>, <<1>> \o TxOutBytes(seed)}

\* count prefix, k join splits, the 32 + 64 authorization bytes when k > 0,
\* and MaxExtra bytes that belong to nothing
TxTailBytes(seed, k) ==
  Encode(Big(k)) \o Pattern(seed, k * JoinSplitSize)
    \o (IF k > 0 THEN Pattern(seed + 1, 32 + 64) ELSE <<>>)
    \o Pattern(seed + 2, MaxExtra)

TransactionInputs ==
  {Truncate(v \o vin \o vout \o <<9, 0, 0, 0>> \o TxTailBytes(101, k), cut) :
     v \in VersionBytes, vin \in VinBytes(0), vout \in VoutBytes(101),
     k \in 0..MaxJoinSplits, cut \in 0..MaxCut}

InitTransaction ==
  /\ pc = "call"
  /\ stream \in {Cursor(b) : b \in TransactionInputs}
  /\ out = NoOutcome
  /\ Idle

CallTransaction ==
  /\ pc = "call"
  /\ Finish(Transaction_from_bytes(stream))

NextTransaction == CallTransaction

SpecTransaction == InitTransaction /\ [][NextTransaction]_vars

CountReads(k) ==
  IF k < 253 THEN <<1>> ELSE IF k < 65536 THEN <<1, 2>> ELSE <<1, 4>>

\* C8: after lock_time the decoder reads a count-prefixed JoinSplit sequence
\* exactly when version >= 2 (for version < 2 it reads and consumes nothing
\* more), and it reads the 32-byte key and the 64-byte signature exactly when
\* the decoded vjoinsplit is non-empty; a version >= 2 transaction with a
\* zero count consumes only the one-byte count after lock_time.
C8_ConditionalTail ==
  LET h == Transaction_head(Cursor(stream.buf))
  IN  (pc # "call" /\ h.exc = "none") =>
        LET tail == SubSeq(stream.log, Len(h.s.log) + 1, Len(stream.log))
            v2   == GE(h.val.version, Big(2))
        IN  /\ ~v2 => /\ pc = "returned"
                      /\ tail = <<>>
                      /\ stream.pos = h.s.pos
                      /\ out.val.vjoinsplit = <<>>
            /\ v2 => /\ tail # <<>>
                     /\ tail[1] = 1
            /\ (v2 /\ pc = "returned") =>
                 LET k == Len(out.val.vjoinsplit)
                 IN  /\ k = 0 => /\ tail = <<1>>
                                 /\ stream.pos = h.s.pos + 1
                     /\ k > 0 => tail = CountReads(k)
                                          \o Repeat(JoinSplitReads, k)
                                          \o <<32, 64>>

C8_Witness ==
  /\ pc = "returned"
  /\ GE(out.val.version, Big(2))
  /\ out.val.vjoinsplit = <<>>
  /\ out.val.vin # <<>>
  /\ stream.pos < Len(stream.buf)

\* C9: every returned Transaction has a non-empty vjoinsplit exactly when
\* joinsplit_pubkey has 32 bytes and joinsplit_sig has 64 bytes, and has both
\* empty otherwise; a transaction whose 32 + 64 trailing bytes are missing is
\* not returned.
C9_AuthorizationFieldsComplete ==
  pc = "returned" =>
    /\ (out.val.vjoinsplit # <<>>) =
         (Len(out.val.joinsplit_pubkey) = 32 /\ Len(out.val.joinsplit_sig) = 64)
    /\ out.val.vjoinsplit = <<>> =>
         (out.val.joinsplit_pubkey = <<>> /\ out.val.joinsplit_sig = <<>>)

\* ------------------------------------------------------------------------
\* read_blockfile
\* ------------------------------------------------------------------------
\* f.read(size) for an unpacked 32-bit size: the request is logged as made
\* when it fits a machine integer of the model, else as the bytes available
\* (which is what such a request returns).
read_sized(s, size) ==
  read(s, IF size[2] < 32768 /\ size[3] = 0 /\ size[4] = 0 THEN ToInt(size)
          ELSE Len(s.buf) - s.pos)

\* Mutant: a read that stops inside the magic passes the check.
MagicMatches_startswith(m, prefix) ==
  Len(m) <= Len(prefix) /\ m = SubSeq(prefix, 1, Len(m))

\* assert magic == expected_prefix
MagicMatches(m, prefix) == m = prefix

\* Mutant: the file is left where the Block decoder stopped.
AfterPayload_resume(payloadStart, payloadRead, decoded) ==
  [payloadRead.s EXCEPT !.pos = payloadStart.pos + decoded.s.pos]

\* The file offset once the payload has been read: the decoder works on its
\* own io.BytesIO and never moves the file.
AfterPayload(payloadStart, payloadRead, decoded) == payloadRead.s

\* Mutant: the blocks accumulated so far are handed to the caller.
Propagate_partial(e) ==
  /\ pc' = "done"
  /\ exc' = e
  /\ result' = ret
  /\ UNCHANGED <<f, expected_prefix, magic, ret, magicPos, stream, out>>

\* An exception leaves read_blockfile: nothing is returned.
Propagate(e) ==
  /\ pc' = "raised"
  /\ exc' = e
  /\ UNCHANGED <<f, expected_prefix, magic, ret, result, magicPos, stream, out>>

\* open(name, "rb") and the first magic read
Open ==
  /\ pc = "open"
  /\ \E m \in {read(f, Len(expected_prefix))} :
       /\ magic' = m.val
       /\ f' = m.s
       /\ magicPos' = <<f.pos>>
  /\ pc' = "while"
  /\ UNCHANGED <<expected_prefix, ret, result, exc, stream, out>>

\* ret.append(Block.from_bytes(raw_block)); magic = f.read(len(expected_prefix))
AppendBlock(b, at) ==
  \E m \in {read(at, Len(expected_prefix))} :
    /\ ret' = Append(ret, b.val)
    /\ magic' = m.val
    /\ f' = m.s
    /\ magicPos' = Append(magicPos, at.pos)
    /\ stream' = b.s
    /\ pc' = "while"
    /\ UNCHANGED <<expected_prefix, result, exc, out>>

\* size, = unpack("<I", f.read(4)); raw_block = io.BytesIO(f.read(size))
ReadPayload(size) ==
  \E p \in {read_sized(size.s, size.val)} :
    \E b \in {Block_from_bytes(Cursor(p.val))} :
      IF b.exc # "none" THEN Propagate(b.exc)
      ELSE AppendBlock(b, AfterPayload(size.s, p, b))

\* One iteration of the while loop
ReadRecord ==
  /\ pc = "while"
  /\ Len(magic) # 0
  /\ IF ~MagicMatches(magic, expected_prefix) THEN Propagate("AssertionError")
     ELSE \E size \in {unpack("<I", read(f, 4))} :
            IF size.exc # "none" THEN Propagate(size.exc)
            ELSE ReadPayload(size)

\* The loop ends on an empty magic read: return ret
ReturnBlocks ==
  /\ pc = "while"
  /\ Len(magic) = 0
  /\ result' = ret
  /\ pc' = "done"
  /\ UNCHANGED <<f, expected_prefix, magic, ret, exc, magicPos, stream, out>>

\* ------------------------------------------------------------------------
\* Block files
\* ------------------------------------------------------------------------
MagicBytes == <<250, 26, 244, 229>>

Prefixes == {SubSeq(MagicBytes, 1, l) : l \in 0..MaxMagicLen}

\* a prefix-length byte string that differs from the prefix in its last byte
WrongMagic(prefix) ==
  IF prefix = <<>> THEN <<>>
  ELSE [prefix EXCEPT ![Len(prefix)] = (@ + 1) % 256]

LE32(n) == <<n % 256, (n \div 256) % 256, (n \div 65536) % 256, n \div 16777216>>

HeaderBytes(seed) == Pattern(seed, 4 + 32 + 32 + 32 + 4 + 4 + 32)

\* a block without transactions and with an empty solution
EmptyBlockBytes(seed) == HeaderBytes(seed) \o <<0>> \o <<0>>

\* a block with a 2-byte solution and one version-2 transaction that has one
\* input, one output and no join split
OneTxBlockBytes(seed) ==
  HeaderBytes(seed) \o <<2, 7, 8>> \o <<1>>
    \o <<2, 0, 0, 0>> \o <<1>> \o TxInBytes(seed) \o <<1>> \o TxOutBytes(seed)
    \o <<9, 0, 0, 0>> \o <<0>>

\* a block whose solution length is written in a non-canonical form
BadBlockBytes(seed) == HeaderBytes(seed) \o <<253, 0, 0>> \o <<0>>

RecordBytes(m, payload) == m \o LE32(Len(payload)) \o payload

\* the records a file may hold at the given place: well-formed ones with and
\* without unconsumed payload bytes, one with a foreign magic, one whose
\* payload does not decode
RecordVariants(prefix, seed) ==
  {RecordBytes(prefix, blk \o Pattern(seed + 3, t)) :
     blk \in {EmptyBlockBytes(seed), OneTxBlockBytes(seed)}, t \in {0, MaxTrail}}
  \cup {RecordBytes(WrongMagic(prefix), EmptyBlockBytes(seed)),
        RecordBytes(prefix, BadBlockBytes(seed))}

RECURSIVE RecordRuns(_, _)
RecordRuns(prefix, k) ==
  IF k = 0 THEN {<<>>}
  ELSE {run \o rec : run \in RecordRuns(prefix, k - 1),
                     rec \in RecordVariants(prefix, 50 * k)}

\* what follows the last complete record: nothing, or a record cut short in
\* its magic, in its size field or in its payload
Tails(prefix) ==
  LET rec == RecordBytes(prefix, EmptyBlockBytes(200) \o Pattern(203, MaxTrail))
  IN  {<<>>}
      \cup {SubSeq(rec, 1, keep) : keep \in 1..(Len(prefix) + 4)}
      \cup {Truncate(rec, cut) : cut \in 1..(MaxTrail + 1)}

Files(prefix) ==
  {run \o tail : run \in UNION {RecordRuns(prefix, k) : k \in 0..MaxRecords},
                 tail \in Tails(prefix)}

InitBlockfile ==
  /\ pc = "open"
  /\ expected_prefix \in Prefixes
  /\ f \in {Cursor(b) : b \in Files(expected_prefix)}
  /\ magic = <<>>
  /\ ret = <<>>
  /\ result = <<>>
  /\ exc = "none"
  /\ magicPos = <<>>
  /\ stream = NoCursor
  /\ out = NoOutcome

NextBlockfile == Open \/ ReadRecord \/ ReturnBlocks

SpecBlockfile == InitBlockfile /\ [][NextBlockfile]_vars

\* read_blockfile called with a non-empty magic prefix
InitBlockfileMagic == InitBlockfile /\ expected_prefix # <<>>

SpecBlockfileMagic == InitBlockfileMagic /\ [][NextBlockfile]_vars

\* ------------------------------------------------------------------------
\* Claims about read_blockfile
\* ------------------------------------------------------------------------
\* The file split into complete records [magic][size][payload] from offset
\* pos on: ok is FALSE when the bytes are not a whole number of such records.
RECURSIVE RefRecords(_, _, _, _)
RefRecords(b, prefix, pos, acc) ==
  LET m     == Len(prefix)
      sizeB == SubSeq(b, pos + m + 1, pos + m + 4)
      size  == sizeB[1] + 256 * sizeB[2] + 65536 * sizeB[3] + 16777216 * sizeB[4]
  IN  IF pos = Len(b) THEN [ok |-> TRUE, recs |-> acc]
      ELSE IF pos + m + 4 > Len(b) THEN [ok |-> FALSE, recs |-> acc]
      ELSE IF SubSeq(b, pos + 1, pos + m) # prefix THEN [ok |-> FALSE, recs |-> acc]
      ELSE IF sizeB[4] > 127 \/ pos + m + 4 + size > Len(b)
           THEN [ok |-> FALSE, recs |-> acc]
      ELSE RefRecords(b, prefix, pos + m + 4 + size,
                      Append(acc, [start |-> pos, size |-> size,
                                   payload |-> SubSeq(b, pos + m + 5,
                                                      pos + m + 4 + size)]))

Decodes(payload) == Block_from_bytes(Cursor(payload)).exc = "none"

\* the file consists of complete records whose payloads all decode
CompleteDecodable(b, prefix) ==
  LET rr == RefRecords(b, prefix, 0, <<>>)
  IN  rr.ok /\ \A i \in 1..Len(rr.recs) : Decodes(rr.recs[i].payload)

OneBlockPerRecord ==
  LET recs == RefRecords(f.buf, expected_prefix, 0, <<>>).recs
  IN  /\ pc # "raised"
      /\ pc = "done" =>
           /\ result = [i \in 1..Len(recs) |->
                          Block_from_bytes(Cursor(recs[i].payload)).val]
           /\ Len(magicPos) = Len(recs) + 1
           /\ magicPos[1] = 0
           /\ \A k \in 1..Len(recs) :
                magicPos[k + 1]
                  = (magicPos[k] + Len(expected_prefix)) + 4 + recs[k].size

\* C1 as stated: for every file made of complete records whose payloads
\* decode, read_blockfile returns one Block per record in file order, and
\* each next magic is read at (offset after the magic) + 4 + size, whatever
\* the Block decoder consumed.
C1_Original ==
  CompleteDecodable(f.buf, expected_prefix) => OneBlockPerRecord

\* C1 amended: the same, for a non-empty expected magic prefix.
C1_OneBlockPerRecord ==
  (expected_prefix # <<>> /\ CompleteDecodable(f.buf, expected_prefix))
    => OneBlockPerRecord

C1_Witness ==
  /\ pc = "done"
  /\ expected_prefix # <<>>
  /\ CompleteDecodable(f.buf, expected_prefix)
  /\ Len(result) >= 2
  /\ result[1].transactions # <<>>
  /\ stream.pos < Len(stream.buf)
  /\ magicPos[2] > Len(expected_prefix) + 4 + (4 + 32 + 32 + 32 + 4 + 4 + 32) + 2

\* the bytes from pos on begin with the whole magic and then stop inside the
\* size field or before the announced payload is complete
CutInsideRecord(b, prefix, pos) ==
  LET m     == Len(prefix)
      sizeB == SubSeq(b, pos + m + 1, pos + m + 4)
      size  == sizeB[1] + 256 * sizeB[2] + 65536 * sizeB[3] + 16777216 * sizeB[4]
  IN  /\ pos + m <= Len(b)
      /\ pos < Len(b)
      /\ SubSeq(b, pos + 1, pos + m) = prefix
      /\ \/ pos + m + 4 > Len(b)
         \/ sizeB[4] > 127
         \/ pos + m + 4 + size > Len(b)

\* C2: read_blockfile returns only when the end of the file falls exactly on
\* a record boundary; a file that ends inside a record's size field or
\* before the full payload raises the end-of-stream error.
C2_ReturnsOnlyOnRecordBoundary ==
  /\ pc = "done" => RefRecords(f.buf, expected_prefix, 0, <<>>).ok
  /\ (pc \in {"done", "raised"} /\ magic = expected_prefix /\ magic # <<>>
        /\ CutInsideRecord(f.buf, expected_prefix, magicPos[Len(magicPos)]))
       => (pc = "raised" /\ exc = "struct.error")

\* C3: at every record position, bytes read for the magic that are non-empty
\* and differ from the expected prefix (a partial read included) make the
\* call fail with the assertion error; it does not return.
C3_MagicMismatchFails ==
  [][(pc = "while" /\ magic # <<>> /\ magic # expected_prefix)
       => (pc' = "raised" /\ exc' = "AssertionError" /\ result' = <<>>)]_vars

C3_Witness ==
  /\ pc = "raised"
  /\ exc = "AssertionError"
  /\ Len(ret) >= 1
  /\ Len(magic) > 0
  /\ Len(magic) < Len(expected_prefix)

\* the record at the current file position cannot be decoded
RecordFails ==
  LET size == unpack("<I", read(f, 4))
  IN  \/ magic # expected_prefix
      \/ size.exc # "none"
      \/ ~Decodes(read_sized(size.s, size.val).val)

\* C4: when a record fails to decode (magic mismatch, short read or Block
\* decode error) the call fails and the caller receives no blocks, also when
\* earlier records were decoded.
C4_AllOrNothing ==
  [][(pc = "while" /\ magic # <<>> /\ RecordFails)
       => (pc' = "raised" /\ exc' # "none" /\ result' = <<>>)]_vars

C4_Witness ==
  /\ pc = "raised"
  /\ exc = "struct.error"
  /\ Len(ret) >= 1
  /\ result = <<>>

====
